---- MODULE Spec2Model ----
(***************************************************************************)
(* Model of the sylph fuzzy finder engine (rust/src/matcher.rs and         *)
(* rust/src/ffi.rs).                                                       *)
(*                                                                         *)
(*   SpecMatch : Matcher::best_matches and IncrementalMatcher::process     *)
(*               applied to bounded inputs (top-K selection).              *)
(*   SpecFreq  : FrequencyCounter, update and scores on the store.         *)
(*   Spec      : ThreadedMatcher, the host calls query / update /          *)
(*               get_result and drops the matcher, interleaved with the    *)
(*               steps of the worker thread, over the command and the      *)
(*               result channel.                                           *)
(*   SpecFfi   : the same behind the extern "C" functions.                 *)
(***************************************************************************)
EXTENDS Integers, Sequences, FiniteSets, TLC

\* ------------------------------------------------------------------ bounds
\* longest slice of lines given to a matcher session
MaxLen == 3
\* largest frequency score of a line
MaxScore == 1
\* largest num_results
MaxK == 3
\* largest num_lines argument of process
MaxChunk == 3
\* most query and update calls of the host
MaxCommands == 3
\* the lines of a query that has lines: more than one chunk
MaxLines == 150
\* most process calls on one IncrementalMatcher
MaxCalls == 4
\* largest clock of the frecency store
MaxClock == 3

\* the chunk size the worker gives process
ChunkSize == 100

VARIABLES
    \* ---- IncrementalMatcher (matcher.rs 185-193)
    query,          \* the query string: "" or not
    context,        \* the context string: "" or not
    lines,          \* the session's lines: per line, what the scorer finds
    num_results,    \* K
    progressed_to,  \* index of the first line not yet scored
    results,        \* BinaryHeap<Match, MinComparator>: its data vector
    progress,       \* what the last process call returned
    batch,          \* what best_matches over all the lines returned
    calls,          \* history: the number of process calls made
    stride,         \* the num_lines of a caller that passes the same one at
                    \* every process call; -1 when the caller varies it
    \* ---- FrequencyCounter (matcher.rs 263-317): the sqlite store
    counts,         \* table counts: per name, its row if it has one
    fscore,         \* what the latest scores call returned
    scoring,        \* the scores call between its two SELECT statements:
                    \* its entry and the clock it read
    \* ---- ThreadedMatcher, host side (ffi.rs 49-53)
    command_num,    \* id of the latest query
    command_ch,     \* commands sent and not yet received, oldest first
    result_ch,      \* (id, result) pairs sent and not yet received
    host,           \* "ok", "panicked" once a host call has panicked, or
                    \* "freed" once the ThreadedMatcher has been dropped
    ret,            \* what the latest get_result call returned
    c_ret,          \* what the latest start_matches_threaded call returned
    \* ---- the worker thread (ffi.rs 59-98)
    pc,             \* where the worker is; "exit": the closure is left,
                    \* "closing": result_send is dropped, "dead":
                    \* command_recv is dropped too, the thread has ended
    session,        \* the query being served: id, lines, progress
    clock,          \* the clock of the frecency store: updates applied
    \* ---- history
    enqueued,       \* every command sent, in order
    dequeued,       \* every command the worker received, in order
    sent,           \* the id of every result the worker sent, in order
    delivered,      \* every result get_result took off the channel and returned
    abandoned,      \* the sessions the worker left before Done: id, progressed_to
    prev_unpolled,  \* the query before the latest one was never polled for
    overtaken       \* the ids of the sessions that had not reached Done when
                    \* a command was pending on the command channel

fvars == <<counts, fscore, scoring>>
svars == <<query, context, lines, num_results, progressed_to, results, progress,
           batch, calls, stride>>
mvars == <<svars, fvars>>
hvars == <<command_num, command_ch, result_ch, host, ret, c_ret>>
wvars == <<pc, session, clock>>
histvars ==
    <<enqueued, dequeued, sent, delivered, abandoned, prev_unpolled, overtaken>>
dvars == <<hvars, wvars, histvars>>
vars == <<mvars, dvars>>

\* ------------------------------------------------------------- the scorer
\* A line is represented by what the scorer finds for it in the session:
\*   qm  skim_matcher.fuzzy_match(line, query): NoMatch for None, else the
\*       match score divided by the length of the line
\*   f   frequency.score(path): ScoreErr when the lookup in the store
\*       fails, else the score
\*   cm  the context term of the line: exp(-0.5 * query.len()) times
\*       fuzzy_match(line, context).unwrap_or(0) divided by the length;
\*       NaN for the line of length 0, which no non-empty context matches:
\*       0 as f64 / 0 as f64
NoMatch == -1
NaN == -2
ScoreErr == -3
Queries == {"", "q"}
Contexts == {"", "c"}

\* SkimMatcherV2 matches every line against the empty pattern with score 0
QueryMatches(q) == IF q = "" THEN {0} ELSE {1}
\* only the line of length 0 has the context term NaN, and only the empty
\* query matches that line
ContextMatches(q, ctx) ==
    IF ctx = "" THEN {0} ELSE IF q = "" THEN {0, 1, NaN} ELSE {0, 1}
\* the lines a non-empty query does not match: their frequency and context
\* terms are the largest
Unmatched(q, ctx) ==
    IF q = "" THEN {}
    ELSE {[qm |-> NoMatch, f |-> MaxScore, cm |-> IF ctx = "" THEN 0 ELSE 1]}
\* the lines whose lookup fails: the closure returns at the lookup, before
\* it matches the line
Failing(q) == {[qm |-> IF q = "" THEN 0 ELSE 1, f |-> ScoreErr, cm |-> 0]}
LineVals(q, ctx) ==
    [qm : QueryMatches(q), f : 0 .. MaxScore, cm : ContextMatches(q, ctx)]
        \cup Unmatched(q, ctx) \cup Failing(q)

Min(a, b) == IF a < b THEN a ELSE b

\* Ordering as an integer: -1 Less, 0 Equal, 1 Greater
Less == -1
Equal == 0
Greater == 1
\* f64: a sum with NaN is NaN, a comparison with NaN is false
fadd(a, b) == IF a = NaN \/ b = NaN THEN NaN ELSE a + b
flt(a, b) == a # NaN /\ b # NaN /\ a < b
\* a.partial_cmp(b).unwrap_or(Ordering::Equal): None when one is NaN
partial_cmp(a, b) ==
    IF flt(a, b) THEN Less ELSE IF flt(b, a) THEN Greater ELSE Equal

\* impl Ord for Match: by score alone
Match_cmp(a, b) == partial_cmp(a.score, b.score)

\* the closure of best_matches for line i (0-based)
context_score(q, ctx, line) == IF ctx # "" THEN line.cm ELSE 0
query_score(q, line) == IF q # "" THEN line.qm ELSE 0

\* faulty variant: a line without a match is kept
IsSome_always(line) == TRUE
\* the closure gives Some(Match) when fuzzy_match gives Some
IsSome(line) == line.qm # NoMatch
MkMatch(i, line, q, ctx) ==
    [index |-> i,
     score |-> fadd(fadd(line.f, context_score(q, ctx, line)), query_score(q, line)),
     context_score |-> context_score(q, ctx, line),
     query_score |-> query_score(q, line),
     frequency_score |-> line.f]

\* lines.enumerate().map(..).filter_map(|x| x): the Matches of the lines
\* that match, in line order
RECURSIVE FilterMap(_, _, _, _)
FilterMap(q, ctx, ls, i) ==
    IF i >= Len(ls) THEN <<>>
    ELSE IF IsSome(ls[i + 1])
         THEN <<MkMatch(i, ls[i + 1], q, ctx)>> \o FilterMap(q, ctx, ls, i + 1)
         ELSE FilterMap(q, ctx, ls, i + 1)

\* entries.iter().position(|x| x.score < mtch.score): 1-based, 0 when None
RECURSIVE Position(_, _, _)
Position(entries, mtch, from) ==
    IF from > Len(entries) THEN 0
    ELSE IF flt(entries[from].score, mtch.score) THEN from
    ELSE Position(entries, mtch, from + 1)

\* one step of the fold of best_matches
FoldStep(entries, mtch, k) ==
    IF Len(entries) < k
    THEN Append(entries, mtch)
    ELSE LET pos == Position(entries, mtch, 1)
         IN  IF pos # 0 THEN [entries EXCEPT ![pos] = mtch] ELSE entries

RECURSIVE Fold(_, _, _)
Fold(entries, ms, k) ==
    IF ms = <<>> THEN entries
    ELSE Fold(FoldStep(entries, Head(ms), k), Tail(ms), k)

\* sort_unstable_by(score descending): slices of at most 20 elements are
\* sorted by insertion, the tail shifted left while it is strictly less
RECURSIVE ShiftTail(_, _)
ShiftTail(v, i) ==
    IF i > 1 /\ partial_cmp(v[i].score, v[i - 1].score) = Greater
    THEN ShiftTail([v EXCEPT ![i - 1] = v[i], ![i] = v[i - 1]], i - 1)
    ELSE v

RECURSIVE InsertionSort(_, _)
InsertionSort(v, i) ==
    IF i > Len(v) THEN v ELSE InsertionSort(ShiftTail(v, i), i + 1)

sort_unstable_by(v) == InsertionSort(v, 2)

Take(v, n) == SubSeq(v, 1, Min(n, Len(v)))

\* process_results(..)?: best_matches returns the Err of the first line
\* whose closure returns Err
best_matches_err(ls) == \E i \in 1 .. Len(ls) : ls[i].f = ScoreErr

\* Matcher::best_matches over a slice of lines, when no closure returns Err
best_matches(q, ctx, k, ls) ==
    Take(sort_unstable_by(Fold(<<>>, FilterMap(q, ctx, ls, 0), k)), k)

\* ------------------------------------------- BinaryHeap<Match, MinComparator>
\* MinComparator::compare(a, b) = b.cmp(a); the heap keeps the greatest
\* element under compare, the Match of least score, at data[0].
\* The data vector is a sequence; position p of the vector is data[p + 1].
compare(a, b) == Match_cmp(b, a)

\* Hole at pos holding elt: move up while elt is Greater than the parent
RECURSIVE sift_up_hole(_, _, _, _)
sift_up_hole(data, start, pos, elt) ==
    IF pos > start
    THEN LET parent == (pos - 1) \div 2
         IN  IF compare(elt, data[parent + 1]) # Greater
             THEN [data EXCEPT ![pos + 1] = elt]
             ELSE sift_up_hole([data EXCEPT ![pos + 1] = data[parent + 1]],
                               start, parent, elt)
    ELSE [data EXCEPT ![pos + 1] = elt]

sift_up(data, start, pos) == sift_up_hole(data, start, pos, data[pos + 1])

\* the greater child under compare, the right one when they are equal
GreaterChild(data, child, end) ==
    IF child + 1 < end /\ compare(data[child + 1], data[child + 2]) # Greater
    THEN child + 1
    ELSE child

RECURSIVE sift_down_range_hole(_, _, _, _)
sift_down_range_hole(data, pos, end, elt) ==
    LET child == 2 * pos + 1
    IN  IF child < end
        THEN LET c == GreaterChild(data, child, end)
             IN  IF compare(elt, data[c + 1]) # Less
                 THEN [data EXCEPT ![pos + 1] = elt]
                 ELSE sift_down_range_hole([data EXCEPT ![pos + 1] = data[c + 1]],
                                           c, end, elt)
        ELSE [data EXCEPT ![pos + 1] = elt]

sift_down_range(data, pos, end) ==
    sift_down_range_hole(data, pos, end, data[pos + 1])

\* take the hole to the bottom, then sift the element up from there
RECURSIVE sift_down_to_bottom_hole(_, _, _, _)
sift_down_to_bottom_hole(data, start, pos, elt) ==
    LET child == 2 * pos + 1
    IN  IF child < Len(data)
        THEN LET c == GreaterChild(data, child, Len(data))
             IN  sift_down_to_bottom_hole([data EXCEPT ![pos + 1] = data[c + 1]],
                                          start, c, elt)
        ELSE sift_up([data EXCEPT ![pos + 1] = elt], start, pos)

sift_down_to_bottom(data, pos) ==
    sift_down_to_bottom_hole(data, pos, pos, data[pos + 1])

\* BinaryHeap::push
heap_push(data, item) == sift_up(Append(data, item), 0, Len(data))

\* BinaryHeap::pop: the heap without its top (the caller drops the top)
heap_pop(data) ==
    LET last == data[Len(data)]
        rest == SubSeq(data, 1, Len(data) - 1)
    IN  IF rest = <<>> THEN rest
        ELSE sift_down_to_bottom([rest EXCEPT ![1] = last], 0)

\* BinaryHeap::peek
heap_peek(data) == data[1]

\* BinaryHeap::into_sorted_vec
RECURSIVE into_sorted_vec_from(_, _)
into_sorted_vec_from(data, end) ==
    IF end > 1
    THEN LET e == end - 1
             swapped == [data EXCEPT ![1] = data[e + 1], ![e + 1] = data[1]]
         IN  into_sorted_vec_from(sift_down_range(swapped, 0, e), e)
    ELSE data

into_sorted_vec(data) == into_sorted_vec_from(data, Len(data))

\* ------------------------------------------------------ IncrementalMatcher
Working == [tag |-> "Working", list |-> <<>>]
Done(list) == [tag |-> "Done", list |-> list]
\* Err(..) in place of a Progress
Failed == [tag |-> "Err", list |-> <<>>]

\* faulty variant: a full heap takes the Match without giving one up
Offer_keeps(heap, m, k) ==
    IF Len(heap) < k
    THEN heap_push(heap, m)
    ELSE IF heap # <<>> /\ Match_cmp(m, heap_peek(heap)) = Greater
         THEN heap_push(heap, m)
         ELSE heap
\* the body of the for loop of process: offer one Match to the heap
Offer(heap, m, k) ==
    IF Len(heap) < k
    THEN heap_push(heap, m)
    ELSE IF heap # <<>> /\ Match_cmp(m, heap_peek(heap)) = Greater
         THEN heap_push(heap_pop(heap), m)
         ELSE heap

\* faulty variant: the Match keeps its index within the chunk
absolute_local(mm, base) == mm
\* Match { index: mm.index + self.progressed_to, ..mm }
absolute(mm, base) == [mm EXCEPT !.index = mm.index + base]

RECURSIVE OfferAll(_, _, _, _)
OfferAll(heap, new_matches, base, k) ==
    IF new_matches = <<>> THEN heap
    ELSE LET m == absolute(Head(new_matches), base)
         IN  OfferAll(Offer(heap, m, k), Tail(new_matches), base, k)

ending_progressed_to(pt, n, len) == Min(pt + n, len)

\* the lines process(n) passes to best_matches
chunk(pt, n, ls) == SubSeq(ls, pt + 1, ending_progressed_to(pt, n, Len(ls)))

\* the heap after process(n) scored the next chunk
process_heap(heap, pt, n, ls, k) ==
    OfferAll(heap,
             best_matches(query, context, k, chunk(pt, n, ls)),
             pt, k)

\* faulty variant: the early return sorts the heap itself, not a clone,
\* and leaves it empty
process_takes_heap(n) ==
    IF progressed_to = Len(lines)
    THEN /\ progress' = Done(into_sorted_vec(results))
         /\ results' = <<>>
         /\ UNCHANGED progressed_to
    ELSE IF best_matches_err(chunk(progressed_to, n, lines))
    THEN /\ progress' = Failed
         /\ UNCHANGED <<progressed_to, results>>
    ELSE /\ results' = process_heap(results, progressed_to, n, lines, num_results)
         /\ progressed_to' = ending_progressed_to(progressed_to, n, Len(lines))
         /\ progress' = IF progressed_to' = Len(lines)
                        THEN Done(into_sorted_vec(results'))
                        ELSE Working
\* IncrementalMatcher::process(n)
process(n) ==
    IF progressed_to = Len(lines)
    THEN /\ progress' = Done(into_sorted_vec(results))
         /\ UNCHANGED <<progressed_to, results>>
    ELSE IF best_matches_err(chunk(progressed_to, n, lines))
    THEN /\ progress' = Failed
         /\ UNCHANGED <<progressed_to, results>>
    ELSE /\ results' = process_heap(results, progressed_to, n, lines, num_results)
         /\ progressed_to' = ending_progressed_to(progressed_to, n, Len(lines))
         /\ progress' = IF progressed_to' = Len(lines)
                        THEN Done(into_sorted_vec(results'))
                        ELSE Working

\* ------------------------------------------------------- FrequencyCounter
\* The rows of table counts hold count, an f64 built with exp and ln:
\* count = at + ln(m), where at is the clock of the latest update of the
\* name and m the argument of ln in that update. m, and every score, is a
\* quotient of two polynomials in e, the base of exp and ln, with integer
\* coefficients. The model keeps at and m and computes with the polynomials,
\* so that the arithmetic of update and scores is that of the reals:
\* exp(x - y) is e^x / e^y and exp(ln(z)) is z.
\*
\* A polynomial in e is the sequence of its coefficients, that of e^0
\* first, the last one not 0: <<1, 1>> is 1 + e, <<>> is 0.

\* the names update and scores are called with
Paths == {"a", "b", "c"}
\* the names earlier runs left in the store file, in the order of their
\* updates
Stored ==
    <<"p01", "p02", "p03", "p04", "p05", "p06", "p07", "p08", "p09", "p10",
      "p11", "p12", "p13", "p14", "p15", "p16", "p17", "p18", "p19", "p20">>
Names == Paths \cup {Stored[i] : i \in 1..Len(Stored)}

RECURSIVE PAdd(_, _)
PAdd(p, q) ==
    IF p = <<>> THEN q
    ELSE IF q = <<>> THEN p
    ELSE <<Head(p) + Head(q)>> \o PAdd(Tail(p), Tail(q))
RECURSIVE PScale(_, _)
PScale(c, p) == IF p = <<>> THEN <<>> ELSE <<c * Head(p)>> \o PScale(c, Tail(p))
\* p times e
PShift(p) == IF p = <<>> THEN <<>> ELSE <<0>> \o p
RECURSIVE PMul(_, _)
PMul(p, q) ==
    IF p = <<>> \/ q = <<>> THEN <<>>
    ELSE PAdd(PScale(Head(p), q), PShift(PMul(Tail(p), q)))
RECURSIVE Trim(_)
Trim(p) ==
    IF p = <<>> \/ p[Len(p)] # 0 THEN p ELSE Trim(SubSeq(p, 1, Len(p) - 1))
PSub(p, q) == Trim(PAdd(p, PScale(-1, q)))

\* bounds of the powers of e: EPow[i + 1] <= 1000 * e^i < EPow[i + 1] + 1
EPow ==
    <<1000, 2718, 7389, 20085, 54598, 148413, 403428, 1096633, 2980957,
      8103083, 22026465, 59874141, 162754791>>
\* 1000 * e^i when its coefficient is c, from below or from above
EPowBelow(i, c) == IF c < 0 /\ i > 0 THEN EPow[i + 1] + 1 ELSE EPow[i + 1]
EPowAbove(i, c) == IF c > 0 /\ i > 0 THEN EPow[i + 1] + 1 ELSE EPow[i + 1]
\* integers below and above 1000 * p(e), from the term of e^i on
RECURSIVE Below(_, _)
Below(p, i) ==
    IF i >= Len(p) THEN 0 ELSE p[i + 1] * EPowBelow(i, p[i + 1]) + Below(p, i + 1)
RECURSIVE Above(_, _)
Above(p, i) ==
    IF i >= Len(p) THEN 0 ELSE p[i + 1] * EPowAbove(i, p[i + 1]) + Above(p, i + 1)
\* the sign of p(e); e is transcendental: p(e) = 0 only for p = 0
Positive(p) == Below(p, 0) > 0
Negative(p) == Above(p, 0) < 0

\* the quotient n / d of two polynomials in e, d(e) > 0
Rat(n, d) == [n |-> n, d |-> d]
RAdd(x, y) == Rat(PAdd(PMul(x.n, y.d), PMul(y.n, x.d)), PMul(x.d, y.d))
RDiv(x, y) == Rat(PMul(x.n, y.d), PMul(x.d, y.n))
RLt(x, y) == Positive(PSub(PMul(y.n, x.d), PMul(x.n, y.d)))
RECURSIVE Pow(_)
\* the polynomial e^k
Pow(k) == IF k = 0 THEN <<1>> ELSE PShift(Pow(k - 1))
\* exp(c) for an integer c
Exp(c) == IF c >= 0 THEN Rat(Pow(c), <<1>>) ELSE Rat(<<1>>, Pow(-c))
Zero == Rat(<<>>, <<1>>)
One == Rat(<<1>>, <<1>>)

\* a name without a row, a row holding count = at + ln(m)
NoRow == [row |-> FALSE, at |-> 0, m |-> One]
Row(at, m) == [row |-> TRUE, at |-> at, m |-> m]

\* FrequencyCounter::update(entry): the new clock and the new table.
\* count = unwrap_or(0.), that is at = 0 and m = 1; the row gets
\* clock + ln(exp(clock - count) + 1), and exp(clock - count) is
\* e^(clock - at) / m. m stays in lowest terms: its numerator has the
\* constant term 1 and clock - at >= 1
update_clock(c) == c + 1
update_counts(cnts, c, entry) ==
    LET new_clock == update_clock(c)
        old == IF cnts[entry].row THEN cnts[entry] ELSE Row(0, One)
    IN  [cnts EXCEPT ![entry] =
            Row(new_clock,
                RAdd(RDiv(Exp(new_clock - old.at), old.m), One))]

\* FrequencyCounter::scores(entry), c the clock its first statement read
\* and cnts the table its second statement reads: count = unwrap_or(c), that
\* is at = c and m = 1; exp(c - count) = e^(c - at) / m
scores(cnts, c, entry) ==
    LET count == IF cnts[entry].row THEN cnts[entry] ELSE Row(c, One)
    IN  RDiv(Exp(c - count.at), count.m)

NoScore == [path |-> "", val |-> Zero]
\* no scores call is between its two statements
NoScoring == [path |-> "", c |-> 0]
\* FrequencyCounter::new on a store without rows; no scores call yet
StoreIdle ==
    /\ counts = [p \in Names |-> NoRow]
    /\ fscore = NoScore
    /\ scoring = NoScoring

\* --------------------------------------------------------- ThreadedMatcher
\* A Query command carries its id and its lines; of the lines the
\* dispatcher model keeps their number. Update carries a path.
LineCounts == {0, MaxLines}
QueryCmd(id, len) == [type |-> "Query", id |-> id, len |-> len, path |-> ""]
UpdateCmd(path) == [type |-> "Update", id |-> 0, len |-> 0, path |-> path]

\* (id, Result<Vec<Match>>) on the result channel; len and clock record the
\* lines and the frecency clock the result was computed from
OkResult(s, c) == [id |-> s.id, ok |-> TRUE, len |-> s.len, clock |-> c]
ErrResult(id) == [id |-> id, ok |-> FALSE, len |-> 0, clock |-> 0]
NoResult == [id |-> -1, ok |-> FALSE, len |-> 0, clock |-> 0]

\* the IncrementalMatcher of the worker, by line counts
NoSession == [id |-> 0, len |-> 0, progressed_to |-> 0, progress |-> "None"]
\* faulty variant: the lines the latest abandoned session had scored stay
\* in front of the lines of the new query
NewSession_carry(cmd) ==
    LET kept == IF abandoned = {} THEN 0
                ELSE (CHOOSE a \in abandoned :
                        \A b \in abandoned : b.id <= a.id).progressed_to
    IN  [id |-> cmd.id, len |-> cmd.len + kept, progressed_to |-> 0,
         progress |-> "Working"]
NewSession(cmd) ==
    [id |-> cmd.id, len |-> cmd.len, progressed_to |-> 0, progress |-> "Working"]

\* IncrementalMatcher::process(n) on the session, when scoring succeeds
session_process(s, n) ==
    IF s.progressed_to = s.len
    THEN [s EXCEPT !.progress = "Done"]
    ELSE LET e == ending_progressed_to(s.progressed_to, n, s.len)
         IN  [s EXCEPT !.progressed_to = e,
                       !.progress = IF e = s.len THEN "Done" ELSE "Working"]

\* a command as the histories record it: its kind, id, number of lines
\* and path
Sig(cmd) ==
    [type |-> cmd.type, id |-> cmd.id, len |-> cmd.len, path |-> cmd.path]

\* ret: what get_result returned, with the command_num it read, the id the
\* host wanted and whether the worker thread had ended when it was called
NoRet == [kind |-> "NotCalled", res |-> NoResult, cn |-> 0, want |-> 0,
          dead |-> FALSE]

\* c_ret: what start_matches_threaded returned (null, an error string, or
\* nothing: the call panicked) and which of its arguments was bad
NoCall == [bad |-> "none", out |-> "NotCalled"]

ChannelsIdle ==
    /\ command_num = 0
    /\ command_ch = <<>>
    /\ result_ch = <<>>
    /\ host = "ok"
    /\ ret = NoRet
    /\ c_ret = NoCall
    /\ pc = "new"
    /\ session = NoSession
    /\ enqueued = <<>>
    /\ dequeued = <<>>
    /\ sent = <<>>
    /\ delivered = <<>>
    /\ abandoned = {}
    /\ prev_unpolled = FALSE
    /\ overtaken = {}

\* the dispatcher over a store no update has reached
DispatcherIdle ==
    /\ ChannelsIdle
    /\ clock = 0

\* ThreadedMatcher::new: the channels are empty, the worker thread is
\* spawned and has not run yet
Init ==
    /\ DispatcherIdle
    /\ query = ""
    /\ context = ""
    /\ lines = <<>>
    /\ num_results = 0
    /\ progressed_to = 0
    /\ results = <<>>
    /\ progress = [tag |-> "NotRun", list |-> <<>>]
    /\ batch = [tag |-> "NotRun", list |-> <<>>]
    /\ calls = 0
    /\ stride = -1
    /\ StoreIdle

\* ---- host calls
\* The closure of the worker thread owns result_send and command_recv. When
\* the closure is left, by return or by a panic, they are dropped one after
\* the other, result_send first: pc goes from "exit" to "closing" to "dead".
\* try_recv on the empty result channel gives Disconnected from "closing"
\* on; a send on the command channel fails from "dead" on.
ResultSenderDropped == pc \in {"closing", "dead"}
CommandReceiverDropped == pc = "dead"

\* history: the session with this id has not reached Done and the command
\* channel holds the commands pending
Overtaken(s, pending) ==
    IF s.progress = "Working" /\ pending # <<>> THEN overtaken \cup {s.id}
    ELSE overtaken

\* Sender::send(..).unwrap(): the send fails, and the call panics, once the
\* worker has dropped the receiver
send_command(cmd) ==
    IF CommandReceiverDropped
    THEN /\ host' = "panicked"
         /\ UNCHANGED <<command_ch, enqueued, overtaken>>
    ELSE /\ command_ch' = Append(command_ch, cmd)
         /\ enqueued' = Append(enqueued, Sig(cmd))
         /\ overtaken' = Overtaken(session, command_ch')
         /\ host' = host

NumUpdates(cmds) == Cardinality({i \in 1 .. Len(cmds) : cmds[i].type = "Update"})

\* get_result has been called since the latest query
PolledForLatest == ret.kind # "NotCalled" /\ ret.cn = command_num

\* faulty variant: the id is the command_num of before the increment
query_id_before(cn) == cn - 1
\* faulty variant: the id is taken one past command_num
query_id_ahead(cn) == cn + 1
\* the id query gives the command, from the incremented command_num
query_id(cn) == cn

\* ThreadedMatcher::query
Query ==
    /\ host = "ok"
    /\ command_num + NumUpdates(enqueued) < MaxCommands
    /\ \E len \in LineCounts :
         /\ command_num' = command_num + 1
         /\ send_command(QueryCmd(query_id(command_num'), len))
    /\ prev_unpolled' = (command_num >= 1 /\ ~PolledForLatest)
    /\ UNCHANGED <<result_ch, ret, c_ret, wvars, sent, dequeued, delivered, abandoned,
                   mvars>>

\* ThreadedMatcher::update
Update ==
    /\ host = "ok"
    /\ command_num + NumUpdates(enqueued) < MaxCommands
    /\ \E path \in Paths : send_command(UpdateCmd(path))
    /\ UNCHANGED <<command_num, result_ch, ret, c_ret, wvars, sent, dequeued, delivered,
                   abandoned, prev_unpolled, mvars>>

\* The arguments of start_matches_threaded: all good, or one of them bad,
\* invalid UTF-8 in the query, the context or a line, or a null handle.
\* Only a call that passes lines can pass a bad line.
BadArgs(len) ==
    {"none", "query", "context", "handle"} \cup (IF len > 0 THEN {"lines"} ELSE {})
\* the try block before the call of query: to_str()? on the query and the
\* context, as_mut().context("invalid pointer")? on the handle
args_error(bad) == bad \in {"query", "context", "handle"}

\* start_matches_threaded. With good arguments it is ThreadedMatcher::query.
\* A bad line is met inside query, after command_num += 1, where the
\* command is built: l.path() and l.line() unwrap to_str(), the call panics
\* and nothing is sent.
StartMatches ==
    /\ host = "ok"
    /\ command_num + NumUpdates(enqueued) < MaxCommands
    /\ \E len \in LineCounts :
         \E bad \in BadArgs(len) :
            IF args_error(bad)
            THEN /\ c_ret' = [bad |-> bad, out |-> "error"]
                 /\ UNCHANGED <<command_num, command_ch, host, enqueued,
                                prev_unpolled, overtaken>>
            ELSE /\ command_num' = command_num + 1
                 /\ IF bad = "lines"
                    THEN /\ host' = "panicked"
                         /\ UNCHANGED <<command_ch, enqueued, overtaken>>
                    ELSE send_command(QueryCmd(query_id(command_num'), len))
                 /\ c_ret' = [bad |-> bad,
                              out |-> IF host' = "ok" THEN "null" ELSE "panic"]
                 /\ prev_unpolled' = (command_num >= 1 /\ ~PolledForLatest)
    /\ UNCHANGED <<result_ch, ret, wvars, sent, dequeued, delivered, abandoned,
                   mvars>>

\* faulty variant: a result of an older query is returned like the current one
result_arm_keeps_stale(id, cn) ==
    IF id = 0 THEN "zero"
    ELSE IF id <= cn THEN "current"
    ELSE "unreachable"
\* the arm of the match on the id of a received result
result_arm(id, cn) ==
    IF id = 0 THEN "zero"
    ELSE IF id < cn THEN "stale"
    ELSE IF id = cn THEN "current"
    ELSE "unreachable"

\* try_recv() on an empty channel: Err(Disconnected) gives
\* Some(Err("Processing thread has died")), Err(Empty) gives None
\* faulty variant: every try_recv error is taken for Disconnected
try_recv_error_died(disconnected) == "Died"
\* faulty variant: every try_recv error gives None
try_recv_error_none(disconnected) == "None"
try_recv_error(disconnected) == IF disconnected THEN "Died" ELSE "None"

\* ThreadedMatcher::get_result on channel ch: what it returns and what it
\* leaves on the channel
RECURSIVE get_result(_, _, _)
get_result(ch, cn, disconnected) ==
    IF ch = <<>>
    THEN [kind |-> try_recv_error(disconnected), res |-> NoResult, rest |-> ch]
    ELSE LET arm == result_arm(Head(ch).id, cn)
         IN  IF arm = "stale"
             THEN get_result(Tail(ch), cn, disconnected)
             ELSE [kind |-> IF arm = "unreachable" THEN "Unreachable" ELSE "Some",
                   res |-> Head(ch), rest |-> Tail(ch)]

\* the ids the host has been given: it waits for the result of one of them.
\* get_result takes no id: it reads command_num.
Issued == IF command_num = 0 THEN {0} ELSE 1 .. command_num

\* a call of get_result by a host that wants the result of query want
GetResult ==
    /\ host = "ok"
    /\ \E want \in Issued :
         LET r == get_result(result_ch, command_num, ResultSenderDropped)
         IN  /\ result_ch' = r.rest
             /\ ret' = [kind |-> r.kind, res |-> r.res, cn |-> command_num,
                        want |-> want, dead |-> pc = "dead"]
             /\ delivered' = IF r.kind = "Some"
                             THEN Append(delivered, r.res.id)
                             ELSE delivered
             /\ host' = IF r.kind = "Unreachable" THEN "panicked" ELSE host
    /\ UNCHANGED <<command_num, command_ch, c_ret, wvars, enqueued, dequeued, sent,
                   abandoned, prev_unpolled, overtaken, mvars>>

\* get_matches_threaded: get_result, then the Matches of an Ok result are
\* copied into the buffer of the caller, of *num_matches elements.
\* results_out[i] panics past the end of a buffer shorter than the result,
\* after the result was taken off the channel. A result over no lines has
\* no Match to copy.
GetMatches ==
    /\ host = "ok"
    /\ \E want \in Issued, fits \in BOOLEAN :
         LET r == get_result(result_ch, command_num, ResultSenderDropped)
             copied == r.kind = "Some" /\ r.res.ok /\ r.res.len > 0
         IN  /\ ~fits => copied
             /\ result_ch' = r.rest
             /\ ret' = [kind |-> r.kind, res |-> r.res, cn |-> command_num,
                        want |-> want, dead |-> pc = "dead"]
             /\ delivered' = IF r.kind = "Some"
                             THEN Append(delivered, r.res.id)
                             ELSE delivered
             /\ host' = IF r.kind = "Unreachable" \/ ~fits
                        THEN "panicked" ELSE host
    /\ UNCHANGED <<command_num, command_ch, c_ret, wvars, enqueued, dequeued, sent,
                   abandoned, prev_unpolled, overtaken, mvars>>

\* free_threaded_matcher: the ThreadedMatcher is dropped, and with it the
\* sender of the command channel and the receiver of the result channel
FreeMatcher ==
    /\ host = "ok"
    /\ host' = "freed"
    /\ UNCHANGED <<command_num, command_ch, result_ch, ret, c_ret, wvars, histvars,
                   mvars>>

\* ---- the worker thread
\* result_send.send((id, result)).unwrap(), the worker going on at next:
\* the send fails, and the worker panics, once the host has dropped the
\* ThreadedMatcher
send_result(r, next) ==
    IF host = "freed"
    THEN /\ pc' = "exit"
         /\ UNCHANGED <<result_ch, sent>>
    ELSE /\ result_ch' = Append(result_ch, r)
         /\ sent' = Append(sent, r.id)
         /\ pc' = next

\* Matcher::new() succeeds: the worker enters its loop
W_New ==
    /\ pc = "new"
    /\ pc' = "recv"
    /\ UNCHANGED <<hvars, session, clock, histvars, mvars>>

\* faulty variant: no return after the error is sent, the worker enters its loop
W_NewFail_continues ==
    /\ pc = "new"
    /\ send_result(ErrResult(0), "recv")
    /\ UNCHANGED <<command_num, command_ch, host, ret, c_ret, session, clock, enqueued,
                   dequeued, delivered, abandoned, prev_unpolled, overtaken, mvars>>
\* Matcher::new() fails: the worker sends (0, Err) and returns
W_NewFail ==
    /\ pc = "new"
    /\ send_result(ErrResult(0), "exit")
    /\ UNCHANGED <<command_num, command_ch, host, ret, c_ret, session, clock, enqueued,
                   dequeued, delivered, abandoned, prev_unpolled, overtaken, mvars>>

\* the closure is left: result_send is dropped
W_DropSender ==
    /\ pc = "exit"
    /\ pc' = "closing"
    /\ UNCHANGED <<hvars, session, clock, histvars, mvars>>

\* command_recv is dropped, the thread ends
W_Exit ==
    /\ pc = "closing"
    /\ pc' = "dead"
    /\ UNCHANGED <<hvars, session, clock, histvars, mvars>>

\* recv() on the empty command channel of a dropped ThreadedMatcher gives
\* Err(RecvError): unwrap panics. The commands sent before the drop are
\* still received.
W_RecvDisconnected ==
    /\ pc = "recv"
    /\ command_ch = <<>>
    /\ host = "freed"
    /\ pc' = "exit"
    /\ UNCHANGED <<hvars, session, clock, histvars, mvars>>

\* faulty variant: the newest command is handed out first
recv_msg_newest(ch) == ch[Len(ch)]
\* command_recv.recv(): the oldest command, and the channel without it
recv_msg(ch) == Head(ch)
recv_rest(ch) == Tail(ch)

\* recv() gives a Query: a new IncrementalMatcher, progress = Working
W_RecvQuery ==
    /\ pc = "recv"
    /\ command_ch # <<>>
    /\ recv_msg(command_ch).type = "Query"
    /\ command_ch' = recv_rest(command_ch)
    /\ dequeued' = Append(dequeued, Sig(recv_msg(command_ch)))
    /\ session' = NewSession(recv_msg(command_ch))
    /\ overtaken' = Overtaken(session', command_ch')
    /\ pc' = "loop"
    /\ UNCHANGED <<command_num, result_ch, host, ret, c_ret, clock, enqueued, sent,
                   delivered, abandoned, prev_unpolled, mvars>>

\* matcher.update(path) returns Ok: the transaction of
\* FrequencyCounter::update is committed
update_ok(path) ==
    /\ counts' = update_counts(counts, clock, path)
    /\ clock' = update_clock(clock)
\* matcher.update(path) returns Err: the transaction is rolled back
update_err == UNCHANGED <<counts, clock>>

\* faulty variant: the update is received and not applied to the store
W_RecvUpdate_skipped ==
    /\ pc = "recv"
    /\ command_ch # <<>>
    /\ recv_msg(command_ch).type = "Update"
    /\ command_ch' = recv_rest(command_ch)
    /\ dequeued' = Append(dequeued, Sig(recv_msg(command_ch)))
    /\ pc' = "recv"
    /\ UNCHANGED <<command_num, result_ch, host, ret, c_ret, session, clock, enqueued, sent,
                   delivered, abandoned, prev_unpolled, overtaken, mvars>>
\* faulty variant: a failed update is posted as an error (id 0) before the
\* thread ends
W_RecvUpdate_posts ==
    /\ pc = "recv"
    /\ command_ch # <<>>
    /\ recv_msg(command_ch).type = "Update"
    /\ command_ch' = recv_rest(command_ch)
    /\ dequeued' = Append(dequeued, Sig(recv_msg(command_ch)))
    /\ \E ok \in BOOLEAN :
         IF ok THEN /\ update_ok(recv_msg(command_ch).path) /\ pc' = "recv"
                    /\ UNCHANGED <<result_ch, sent>>
               ELSE /\ update_err
                    /\ send_result(ErrResult(0), "exit")
    /\ UNCHANGED <<command_num, host, ret, c_ret, session, enqueued,
                   delivered, abandoned, prev_unpolled, overtaken, svars, fscore,
                   scoring>>
\* recv() gives an Update: matcher.update(path).unwrap()
W_RecvUpdate ==
    /\ pc = "recv"
    /\ command_ch # <<>>
    /\ recv_msg(command_ch).type = "Update"
    /\ command_ch' = recv_rest(command_ch)
    /\ dequeued' = Append(dequeued, Sig(recv_msg(command_ch)))
    /\ \E ok \in BOOLEAN :
         IF ok THEN update_ok(recv_msg(command_ch).path) /\ pc' = "recv"
               ELSE update_err /\ pc' = "exit"
    /\ UNCHANGED <<command_num, result_ch, host, ret, c_ret, session, enqueued, sent,
                   delivered, abandoned, prev_unpolled, overtaken, svars, fscore,
                   scoring>>

\* the condition of the while loop
loop_continues(pending, p) == pending = 0 /\ p = "Working"
\* faulty variant: the results are never sent
loop_emits_never(p) == FALSE
\* faulty variant: the results are sent whatever the progress
loop_emits_always(p) == TRUE
\* if let Progress::Done(results) = progress
loop_emits(p) == p = "Done"

\* the loop condition holds: the worker calls process
W_Enter ==
    /\ pc = "loop"
    /\ loop_continues(Len(command_ch), session.progress)
    /\ pc' = "process"
    /\ UNCHANGED <<hvars, session, clock, histvars, mvars>>

\* inc_matcher.process(100)? returns Ok(progress)
W_Process ==
    /\ pc = "process"
    /\ session' = session_process(session, ChunkSize)
    /\ pc' = "loop"
    /\ UNCHANGED <<hvars, clock, histvars, mvars>>

\* faulty variant: the worker thread ends once it has sent the error
W_ProcessFail_exits ==
    /\ pc = "process"
    /\ session.progressed_to # session.len
    /\ send_result(ErrResult(session.id), "exit")
    /\ session' = NoSession
    /\ UNCHANGED <<command_num, command_ch, host, ret, c_ret, clock, enqueued, dequeued,
                   delivered, abandoned, prev_unpolled, overtaken, mvars>>
\* inc_matcher.process(100)? returns Err: scoring a chunk failed; the
\* worker sends (id, Err(err))
W_ProcessFail ==
    /\ pc = "process"
    /\ session.progressed_to # session.len
    /\ send_result(ErrResult(session.id), "recv")
    /\ session' = NoSession
    /\ UNCHANGED <<command_num, command_ch, host, ret, c_ret, clock, enqueued, dequeued,
                   delivered, abandoned, prev_unpolled, overtaken, mvars>>

\* history: a session whose loop ends before process returned Done
Left(s) == [id |-> s.id, progressed_to |-> s.progressed_to]
LeftBeforeDone(s) == IF s.progress = "Done" THEN {} ELSE {Left(s)}

\* the loop ends with Done: the worker sends (id, Ok(results))
W_Emit ==
    /\ pc = "loop"
    /\ ~loop_continues(Len(command_ch), session.progress)
    /\ loop_emits(session.progress)
    /\ send_result(OkResult(session, clock), "recv")
    /\ abandoned' = abandoned \cup LeftBeforeDone(session)
    /\ session' = NoSession
    /\ UNCHANGED <<command_num, command_ch, host, ret, c_ret, clock, enqueued, dequeued,
                   delivered, prev_unpolled, overtaken, mvars>>

\* the loop ends with Working, a command is pending: nothing is sent
W_Abandon ==
    /\ pc = "loop"
    /\ ~loop_continues(Len(command_ch), session.progress)
    /\ ~loop_emits(session.progress)
    /\ abandoned' = abandoned \cup LeftBeforeDone(session)
    /\ session' = NoSession
    /\ pc' = "recv"
    /\ UNCHANGED <<hvars, clock, enqueued, dequeued, sent, delivered, prev_unpolled,
                   overtaken,
                   mvars>>

HostNext == Query \/ Update \/ GetResult \/ FreeMatcher
WorkerNext ==
    \/ W_New \/ W_NewFail \/ W_DropSender \/ W_Exit
    \/ W_RecvQuery \/ W_RecvUpdate \/ W_RecvDisconnected
    \/ W_Enter \/ W_Process \/ W_ProcessFail \/ W_Emit \/ W_Abandon

Next == HostNext \/ WorkerNext

Spec == Init /\ [][Next]_vars

\* the worker is a thread of its own: while it has a step to take it
\* takes one; nothing makes the host call
SpecLive == Spec /\ WF_vars(WorkerNext)

\* -------------------------------------- SpecFfi: the calls of the C boundary
\* the host starts its queries through start_matches_threaded, with
\* arguments of any kind
FfiNext == StartMatches \/ Update \/ GetMatches \/ FreeMatcher \/ WorkerNext

SpecFfi == Init /\ [][FfiNext]_vars

\* ---------------------------------------------------- SpecMatch: the matcher
\* every sequence of at most n elements of S
SeqUpTo(S, n) == UNION {[1 .. m -> S] : m \in 0 .. n}

NotRun == [tag |-> "NotRun", list |-> <<>>]

\* Matcher::incremental_match (IncrementalMatcher::new) on any lines and K
MatchInit ==
    /\ query \in Queries
    /\ context \in Contexts
    /\ lines \in SeqUpTo(LineVals(query, context), MaxLen)
    /\ num_results \in 0 .. MaxK
    /\ progressed_to = 0
    /\ results = <<>>
    /\ progress = NotRun
    /\ batch = NotRun
    /\ calls = 0
    /\ stride = -1
    /\ StoreIdle
    /\ DispatcherIdle

\* a call of process with any chunk size >= 1
Process ==
    /\ calls < MaxCalls
    /\ \E n \in 1 .. MaxChunk : process(n)
    /\ calls' = calls + 1
    /\ UNCHANGED <<query, context, lines, num_results, batch, stride, fvars, dvars>>

\* a call of best_matches over all the lines of the session
Batch ==
    /\ batch = NotRun
    /\ batch' = IF best_matches_err(lines) THEN Failed
                 ELSE Done(best_matches(query, context, num_results, lines))
    /\ UNCHANGED <<query, context, lines, num_results, progressed_to, results,
                   progress, calls, stride, fvars, dvars>>

MatchNext == Process \/ Batch

SpecMatch == MatchInit /\ [][MatchNext]_vars

\* ------------------------------ SpecStep: a session stepped by one stride
\* IncrementalMatcher::new for a caller that passes the same num_lines,
\* 0 included, at every process call
StepInit ==
    /\ query = "q"
    /\ context = ""
    /\ lines \in SeqUpTo(LineVals(query, context), MaxLen)
    /\ num_results \in 0 .. MaxK
    /\ progressed_to = 0
    /\ results = <<>>
    /\ progress = NotRun
    /\ batch = NotRun
    /\ calls = 0
    /\ stride \in 0 .. MaxChunk
    /\ StoreIdle
    /\ DispatcherIdle

\* a call of process with the num_lines of the caller
Step ==
    /\ calls < MaxCalls
    /\ process(stride)
    /\ calls' = calls + 1
    /\ UNCHANGED <<query, context, lines, num_results, batch, stride, fvars, dvars>>

SpecStep == StepInit /\ [][Step]_vars

\* ------------------------------------------------ SpecFreq: FrequencyCounter
\* the rows earlier runs left in the store: the clock the store was
\* opened with
opened_clock(cnts) == Cardinality({i \in 1 .. Len(Stored) : cnts[Stored[i]].row})

\* a call of update on any path: one transaction, committed. The store is
\* a file: while a scores call of one connection is between its two
\* statements the update is that of another connection (a second Matcher
\* on the file). MaxClock bounds the updates of one run
FrequencyUpdate ==
    /\ clock - opened_clock(counts) < MaxClock
    /\ \E entry \in Paths :
         /\ counts' = update_counts(counts, clock, entry)
         /\ clock' = update_clock(clock)
    /\ UNCHANGED <<fscore, scoring, query, context, lines, num_results,
                   progressed_to, results, progress, batch, calls, stride,
                   hvars, pc, session, histvars>>

\* a call of scores on any path, its first statement: SELECT clock. The
\* two statements are in no transaction: the connection holds no lock on
\* the file between them
FrequencyScoresClock ==
    /\ scoring = NoScoring
    /\ \E entry \in Paths : scoring' = [path |-> entry, c |-> clock]
    /\ UNCHANGED <<counts, fscore, query, context, lines, num_results,
                   progressed_to, results, progress, batch, calls, stride, dvars>>

\* the second statement of the call, SELECT count, and its return
FrequencyScoresCount ==
    /\ scoring # NoScoring
    /\ fscore' = [path |-> scoring.path,
                  val |-> scores(counts, scoring.c, scoring.path)]
    /\ scoring' = NoScoring
    /\ UNCHANGED <<counts, query, context, lines, num_results, progressed_to,
                   results, progress, batch, calls, stride, dvars>>

FreqNext == FrequencyUpdate \/ FrequencyScoresClock \/ FrequencyScoresCount

SpecFreq == Init /\ [][FreqNext]_vars

\* ------------------------------------- SpecStore: a store of earlier runs
\* The store is a file under the cache directory and outlives the process:
\* FrequencyCounter::new opens it and creates the tables only if they are
\* missing. persisted(k) is the table after earlier runs updated the first
\* k stored names, once each.
RECURSIVE persisted(_)
persisted(k) ==
    IF k = 0 THEN [p \in Names |-> NoRow]
    ELSE update_counts(persisted(k - 1), k - 1, Stored[k])

StoreInit ==
    /\ ChannelsIdle
    /\ query = ""
    /\ context = ""
    /\ lines = <<>>
    /\ num_results = 0
    /\ progressed_to = 0
    /\ results = <<>>
    /\ progress = NotRun
    /\ batch = NotRun
    /\ calls = 0
    /\ stride = -1
    /\ fscore = NoScore
    /\ scoring = NoScoring
    /\ \E k \in 0 .. Len(Stored) :
         /\ counts = persisted(k)
         /\ clock = k

SpecStore == StoreInit /\ [][FreqNext]_vars

\* ------------------------------------------------------------ claims C4-C6
Scores(list) == [i \in 1 .. Len(list) |-> list[i].score]

\* the scores of all matching lines, greatest first
AllSorted(ls) == sort_unstable_by(FilterMap(query, context, ls, 0))
TopScores(ls, k) == Scores(Take(AllSorted(ls), k))

\* C4: incremental equals batch: the list process returns with Done is the
\* list one best_matches call over all the lines returns (same indices,
\* same scores, same order), for every K, lines and chunk sizes.
C4_IncrementalEqualsBatch ==
    (progress.tag = "Done" /\ batch.tag = "Done") => progress.list = batch.list

\* C5: top-K correctness: the list returned by best_matches, and by process
\* with Done, has length min(K, number of matching lines) and holds exactly
\* the K highest scores among all matching lines.
C5_TopK ==
    /\ batch.tag = "Done" => Scores(batch.list) = TopScores(lines, num_results)
    /\ progress.tag = "Done" => Scores(progress.list) = TopScores(lines, num_results)

\* (score desc, index asc)
Before(a, b) ==
    flt(b.score, a.score) \/ (a.score = b.score /\ a.index < b.index)
OrderedList(list) ==
    \A i, j \in 1 .. Len(list) : i < j => Before(list[i], list[j])

\* C6: every returned list is ordered by score descending, and Matches of
\* equal score appear in ascending index order.
C6_OrderedByScoreThenIndex ==
    /\ batch.tag = "Done" => OrderedList(batch.list)
    /\ progress.tag = "Done" => OrderedList(progress.list)

\* ------------------------------------------------- claims C1-C3, C7-C10
Range(seq) == {seq[i] : i \in 1 .. Len(seq)}
Ids(ch) == {ch[i].id : i \in 1 .. Len(ch)}
AbandonedIds == {a.id : a \in abandoned}
NoDup(seq) == \A i, j \in 1 .. Len(seq) : i # j => seq[i] # seq[j]
Increasing(seq) == \A i, j \in 1 .. Len(seq) : i < j => seq[i] < seq[j]
IsPrefix(a, b) == Len(a) <= Len(b) /\ a = SubSeq(b, 1, Len(a))

\* a step of the worker thread / a get_result call that returns something new
WorkerStep == pc' # pc \/ dequeued' # dequeued
GetResultCall == ret' # ret

C2_AbandonOnPending ==
    /\ [](overtaken \cap Range(sent) = {})
    /\ [][(pc = "recv" /\ command_ch # <<>> /\ WorkerStep) =>
            /\ dequeued' = Append(dequeued, Sig(Head(command_ch)))
            /\ command_ch' = Tail(command_ch)]_vars

\* C3: q1 then q2 with no poll between: a poll for q1's id that is answered
\* is answered Err("expired command"), never with an Ok result; an Ok
\* result given to a poll for q2's id is q2's. get_result takes no id and
\* has no such error: ret.want is the id the host polls for, a history of
\* the call.
IsExpired(r) == r.kind = "Expired"
AfterUnpolledPair == prev_unpolled /\ ret.cn = command_num

C3_ExpiredCommand ==
    (AfterUnpolledPair /\ ret.kind = "Some" /\ ret.res.ok) =>
        /\ ret.want = command_num - 1 => IsExpired(ret)
        /\ ret.want = command_num => ret.res.id = command_num

\* C7: the worker receives the commands in the order the host sent them,
\* and the ids of the results on the result channel, in the order they were
\* sent, are strictly increasing.
C7_Order ==
    /\ IsPrefix(dequeued, enqueued)
    /\ enqueued = dequeued \o [i \in 1 .. Len(command_ch) |-> Sig(command_ch[i])]
    /\ Increasing(sent)
    /\ Increasing([i \in 1 .. Len(result_ch) |-> result_ch[i].id])

C7_Witness ==
    /\ Len(dequeued) >= 3
    /\ Len(result_ch) >= 2
    /\ \E i \in 1 .. Len(dequeued) : dequeued[i].type = "Update"

\* C8 as claimed: a result whose id is lower than the polled id is never
\* returned.
C8_Original == ret.kind = "Some" => ~(ret.res.id < ret.cn)

\* a result of an older query: not the start-up error, lower than command_num
Stale(r, cn) == 0 < r.id /\ r.id < cn
Removed == Len(result_ch) - Len(result_ch')

\* C8 amended: get_result removes the results from the front of the channel
\* up to the first that is not a result of an older query (id 0, or the id of
\* the latest query); those of older queries are returned neither by this
\* call nor by a later one; the start-up error, id 0, is returned whatever
\* the polled id.
C8_DiscardsStale ==
    /\ [][GetResultCall =>
            /\ Removed >= 0
            /\ result_ch' = SubSeq(result_ch, Removed + 1, Len(result_ch))
            /\ \A i \in 1 .. Removed - 1 : Stale(result_ch[i], command_num)
            /\ \A i \in 1 .. Removed :
                 Stale(result_ch[i], command_num) =>
                    result_ch[i].id \notin Range(delivered')
            /\ ret'.kind = "Some" =>
                 /\ Removed >= 1
                 /\ ret'.res = result_ch[Removed]
                 /\ ~Stale(ret'.res, command_num)
            /\ ret'.kind # "Some" =>
                 /\ result_ch' = <<>>
                 /\ \A i \in 1 .. Removed : Stale(result_ch[i], command_num)]_vars
    /\ [][\A id \in Range(sent) :
            (id \notin Ids(result_ch) /\ id \notin Range(delivered)) =>
                id \notin Range(delivered')]_vars

\* a poll dropped the result of an older query and returned the latest
C8_Witness ==
    /\ ret.kind = "Some" /\ ret.res.id = ret.cn
    /\ \E id \in Range(sent) :
         /\ 0 < id /\ id < ret.cn
         /\ id \notin Ids(result_ch) /\ id \notin Range(delivered)

HasId(ch, id) == id \in Ids(ch)

\* C9 as claimed: when the channel holds no result for the polled id and
\* the worker is alive, get_result returns None; None means no result for
\* the polled id was on the channel.
C9_Original ==
    [][GetResultCall =>
         /\ (~HasId(result_ch, command_num) /\ pc # "dead") => ret'.kind = "None"
         /\ ret'.kind = "None" => ~HasId(result_ch, command_num)]_vars

\* C9 amended: get_result can always be called and returns at once; when
\* the channel holds no result of the latest query and no start-up error
\* (id 0) and the worker is alive, its end of the result channel not
\* dropped, it returns None, and None means the channel held no result of
\* the latest query (and is left empty).
C9_NonBlocking ==
    /\ [](host = "ok" => ENABLED GetResult)
    /\ [][GetResultCall =>
            /\ (/\ ~HasId(result_ch, command_num)
                /\ ~HasId(result_ch, 0)
                /\ ~ResultSenderDropped) => ret'.kind = "None"
            /\ ret'.kind = "None" =>
                 (~HasId(result_ch, command_num) /\ result_ch' = <<>>)]_vars

\* None while the worker is busy with the latest query, older results dropped
C9_Witness ==
    /\ ret.kind = "None" /\ ret.cn = command_num
    /\ pc = "process" /\ session.id = command_num
    /\ \E id \in Range(sent) : id \notin Range(delivered) /\ id \notin Ids(result_ch)

\* C10: a poll for id r that takes a result with a greater id off the
\* channel returns Err("expired"), not that result, and keeps the result
\* for a later poll. ThreadedMatcher has no side-table and get_result
\* returns the result it took.
C10_SideTable ==
    (ret.kind = "Some" /\ ret.res.id > ret.want /\ ret.res.ok) => IsExpired(ret)

\* ------------------------------------------------------------ claims C11-C20
\* C11 as claimed: every get_result call made after the worker thread has
\* ended returns Err("Processing thread has died").
C11_Original == ret.dead => ret.kind = "Died"

\* C11 amended: get_result can always be called and returns at once; a call
\* made after the worker thread has ended never returns None: it returns a
\* result the worker left on the channel (the start-up error or the result
\* of the latest query) or, when none is left, the died error; once it has
\* returned the died error every later call returns it.
C11_DiedAfterTermination ==
    /\ [](host = "ok" => ENABLED GetResult)
    /\ [](ret.dead => ret.kind \in {"Died", "Some"})
    /\ [][(GetResultCall /\ pc = "dead") =>
            /\ ret'.kind = "Some" =>
                 /\ ret'.res.id \in Ids(result_ch)
                 /\ ret'.res.id \in {0, command_num}
            /\ ret'.kind = "Died" =>
                 /\ result_ch' = <<>>
                 /\ \A i \in 1 .. Len(result_ch) : Stale(result_ch[i], command_num)]_vars
    /\ [][(ret.kind = "Died" /\ GetResultCall) => ret'.kind = "Died"]_vars

\* the worker ended after it had sent the result of the latest query: the
\* host was given that result, and the died error by the call after
C11_Witness ==
    /\ ret.dead /\ ret.kind = "Died"
    /\ command_num >= 1
    /\ command_num \in Range(delivered)

\* the worker failed at start-up: it has sent the error paired with id 0
StartupFailed == 0 \in Range(sent)
StartupErrorTaken == 0 \in Range(delivered)

\* the worker after a start-up failure: one result, (0, Err), no command
\* received, no session, and the thread ends
StartupFailureWorker ==
    /\ [](StartupFailed =>
            /\ sent = <<0>>
            /\ dequeued = <<>>
            /\ session = NoSession
            /\ clock = 0
            /\ pc \in {"exit", "closing", "dead"})
    /\ [][(StartupFailed /\ WorkerStep) =>
            \/ pc = "exit" /\ pc' = "closing"
            \/ pc = "closing" /\ pc' = "dead"]_vars
    /\ [][(GetResultCall /\ HasId(result_ch, 0)) =>
            /\ ret'.kind = "Some"
            /\ ret'.res = ErrResult(0)
            /\ result_ch' = <<>>]_vars

\* C12 as claimed: after a start-up failure the worker posts exactly one
\* result, (0, Err), receives no command and ends; the poll that finds the
\* error returns it whatever the latest id is, and every get_result call
\* after that one returns the died error.
C12_Original ==
    /\ StartupFailureWorker
    /\ [][(GetResultCall /\ StartupErrorTaken) => ret'.kind = "Died"]_vars

\* C12 amended: as claimed, but a call made after the error was returned
\* and before the ending worker has dropped its end of the result channel
\* returns None; the calls made once it is dropped return the died error.
C12_StartupFailure ==
    /\ StartupFailureWorker
    /\ [][(GetResultCall /\ StartupErrorTaken) =>
            ret'.kind = IF ResultSenderDropped THEN "Died" ELSE "None"]_vars

\* the start-up error was returned to a host that had issued a query, the
\* query is still on the command channel, and the latest poll got the died
\* error
C12_Witness ==
    /\ StartupErrorTaken
    /\ ret.kind = "Died"
    /\ command_num >= 1
    /\ command_ch # <<>>

IsQuery(c) == c.type = "Query"
IsUpdate(c) == c.type = "Update"
QueryIds(cmds) ==
    LET qs == SelectSeq(cmds, IsQuery) IN [i \in 1 .. Len(qs) |-> qs[i].id]

\* C13: the ids of the queries, in the order they were issued, are
\* 1, 2, 3, ...: each is one more than the one before, none is 0, and
\* command_num is the id of the latest; a query call adds one to
\* command_num, an update call sends its command and leaves command_num
\* alone.
C13_IdsGrowByOne ==
    /\ [](\A i \in 1 .. Len(QueryIds(enqueued)) : QueryIds(enqueued)[i] = i)
    /\ [](host = "ok" => Len(QueryIds(enqueued)) = command_num)
    /\ [][command_num' # command_num =>
            /\ command_num' = command_num + 1
            /\ host' = "ok" =>
                 /\ Len(enqueued') = Len(enqueued) + 1
                 /\ SubSeq(enqueued', 1, Len(enqueued)) = enqueued
                 /\ IsQuery(enqueued'[Len(enqueued')])
                 /\ enqueued'[Len(enqueued')].id = command_num']_vars
    /\ [][(enqueued' # enqueued /\ IsUpdate(enqueued'[Len(enqueued')])) =>
            command_num' = command_num]_vars

\* two queries with an update sent between them
C13_Witness ==
    /\ Len(enqueued) = 3
    /\ IsQuery(enqueued[1]) /\ IsUpdate(enqueued[2]) /\ IsQuery(enqueued[3])
    /\ enqueued[3].id = 2

\* the position in cmds of the query with this id, 0 when there is none
QueryPos(cmds, id) ==
    IF \E i \in 1 .. Len(cmds) : IsQuery(cmds[i]) /\ cmds[i].id = id
    THEN CHOOSE i \in 1 .. Len(cmds) : IsQuery(cmds[i]) /\ cmds[i].id = id
    ELSE 0
\* the number of updates the host sent before the query with this id
UpdatesBefore(id) ==
    Cardinality({i \in 1 .. QueryPos(enqueued, id) : IsUpdate(enqueued[i])})

\* the table counts after the first n of the updates ups were applied, in
\* order, to a store without rows
RECURSIVE Applied(_, _)
Applied(ups, n) ==
    IF n = 0 THEN [p \in Names |-> NoRow]
    ELSE update_counts(Applied(ups, n - 1), n - 1, ups[n].path)

\* C14: every process call of a query's session runs on the frecency store
\* with exactly the updates sent before that query applied, those sent
\* after it not applied: its clock and its rows are those the updates
\* before the query leave; so does every Ok result on the result channel
\* or returned by get_result.
C14_UpdatesSerialized ==
    /\ [][(pc = "process" /\ WorkerStep) =>
            /\ clock = UpdatesBefore(session.id)
            /\ counts = Applied(SelectSeq(enqueued, IsUpdate),
                                UpdatesBefore(session.id))]_vars
    /\ [](\A i \in 1 .. Len(result_ch) :
            result_ch[i].ok => result_ch[i].clock = UpdatesBefore(result_ch[i].id))
    /\ []((ret.kind = "Some" /\ ret.res.ok) => ret.res.clock = UpdatesBefore(ret.res.id))

\* query 1, an update, query 2: the result of query 1 was sent, the result
\* of query 2 was returned and was computed with the update applied
C14_Witness ==
    /\ ret.kind = "Some" /\ ret.res.ok
    /\ ret.res.id = 2 /\ ret.res.clock = 1
    /\ 1 \in Range(sent)
    /\ Len(enqueued) = 3 /\ IsUpdate(enqueued[2])

\* the number of lines the host supplied with the query of this id
LinesOf(id) == enqueued[QueryPos(enqueued, id)].len

\* C15: a session is built from its own command alone (its id, its lines,
\* nothing scored yet); a process call keeps the session's lines and scores
\* positions within them; an Ok result is sent when all the lines of its
\* query and no others have been scored; every Ok result on the channel or
\* returned by get_result was computed over the lines of its own query.
C15_SessionIsolation ==
    /\ [][(dequeued' # dequeued /\ IsQuery(Head(command_ch))) =>
            session' = [id |-> Head(command_ch).id, len |-> Head(command_ch).len,
                        progressed_to |-> 0, progress |-> "Working"]]_vars
    /\ [][(pc = "process" /\ pc' = "loop") =>
            /\ session'.id = session.id
            /\ session'.len = session.len
            /\ session.progressed_to <= session'.progressed_to
            /\ session'.progressed_to <= LinesOf(session.id)]_vars
    /\ [][(sent' # sent /\ result_ch'[Len(result_ch')].ok) =>
            /\ session.progressed_to = session.len
            /\ session.len = LinesOf(session.id)
            /\ result_ch'[Len(result_ch')].id = session.id]_vars
    /\ [](\A i \in 1 .. Len(result_ch) :
            result_ch[i].ok => result_ch[i].len = LinesOf(result_ch[i].id))
    /\ []((ret.kind = "Some" /\ ret.res.ok) => ret.res.len = LinesOf(ret.res.id))

\* query 1 was abandoned after a chunk of its lines had been scored; the
\* result of query 2, which has no lines, was returned
C15_Witness ==
    /\ ret.kind = "Some" /\ ret.res.ok /\ ret.res.id = 2
    /\ \E a \in abandoned : a.id = 1 /\ a.progressed_to > 0
    /\ LinesOf(1) = MaxLines /\ LinesOf(2) = 0

\* C16: a process call made after process has returned Done returns Done
\* with the same list and leaves progressed_to and the heap as they were,
\* whatever its chunk size.
C16_DoneIdempotent ==
    [][(progress.tag = "Done" /\ calls' # calls) =>
         /\ progress' = progress
         /\ progressed_to' = progressed_to
         /\ results' = results]_vars

\* more calls than lines: at least one call was made after Done, with a
\* result list of two Matches or more
C16_Witness ==
    /\ progress.tag = "Done"
    /\ Len(progress.list) >= 2
    /\ calls > Len(lines)

\* every list the matcher holds or has returned
ResultLists == {results, progress.list, batch.list}

\* Match m is the Match of one of the session's lines
OfLine(m) ==
    /\ m.index + 1 \in 1 .. Len(lines)
    /\ m = MkMatch(m.index, lines[m.index + 1], query, context)

Unmatching == {i \in 1 .. Len(lines) : lines[i].qm = NoMatch}

\* C17: with a non-empty query, every Match in the heap and in every list
\* returned by best_matches or process is the Match of a line of the
\* session that fuzzy_match matched; a line fuzzy_match gives None for is in
\* none of them, whatever its frequency and context terms.
C17_NoMatchExcluded ==
    query # "" =>
        \A list \in ResultLists : \A j \in 1 .. Len(list) :
            /\ OfLine(list[j])
            /\ (list[j].index + 1) \notin Unmatching

\* K is at least the number of lines, a line without a match has the
\* largest frequency and context terms, and both lists are all the other
\* lines
C17_Witness ==
    /\ query # "" /\ context # ""
    /\ Len(lines) >= 2 /\ num_results >= Len(lines)
    /\ Unmatching # {}
    /\ progress.tag = "Done" /\ batch.tag = "Done"
    /\ Len(progress.list) = Len(lines) - Cardinality(Unmatching)
    /\ Len(batch.list) = Len(lines) - Cardinality(Unmatching)
    /\ Len(batch.list) >= 1

\* the lists returned so far: by process with Done, by best_matches
Returned ==
    (IF progress.tag = "Done" THEN {progress.list} ELSE {})
        \cup (IF batch.tag = "Done" THEN {batch.list} ELSE {})

Indices(list) == {list[j].index : j \in 1 .. Len(list)}
Prior(m) == fadd(m.frequency_score, m.context_score)
\* no Match is ranked below a Match of lower frequency_score + context_score
RankedByPrior(list) ==
    \A i, j \in 1 .. Len(list) : i < j => ~flt(Prior(list[i]), Prior(list[j]))

\* C18: with the empty query every Match has query_score 0 and score
\* frequency_score + context_score; with K at least the number of lines
\* every line is in the returned list, once; and every returned list is
\* ranked by frequency_score + context_score, greatest first.
C18_EmptyQuery ==
    query = "" =>
        /\ \A list \in ResultLists : \A j \in 1 .. Len(list) :
              /\ list[j].query_score = 0
              /\ list[j].score = Prior(list[j])
        /\ \A list \in Returned :
              /\ num_results >= Len(lines) =>
                    /\ Len(list) = Len(lines)
                    /\ Indices(list) = 0 .. Len(lines) - 1
              /\ RankedByPrior(list)

\* the list a session over the same query, context, K and lines returns with
\* Done when every process call has chunk size n
RECURSIVE RunFrom(_, _, _)
RunFrom(heap, pt, n) ==
    IF pt = Len(lines) THEN into_sorted_vec(heap)
    ELSE RunFrom(process_heap(heap, pt, n, lines, num_results),
                 ending_progressed_to(pt, n, Len(lines)), n)

\* C19: the list a session returns with Done is the list every other run
\* over the same query, context, K and lines returns, whatever chunk sizes
\* the runs use.
C19_Deterministic ==
    progress.tag = "Done" =>
        \A n \in 1 .. MaxChunk : progress.list = RunFrom(<<>>, 0, n)

\* C20: scores gives 0 for a path that has no row in the store, whatever the
\* clock, and a positive score to a path that has one.
C20_MissingScoresZero ==
    fscore.path # "" =>
        IF counts[fscore.path].row
        THEN RLt(Zero, fscore.val)
        ELSE fscore.val = Zero

\* ------------------------------------------------------------ claims C21-C30
\* an update call, and the path it was for: the only row it writes
UpdateCall == clock' # clock
Updated(p) == counts'[p] # counts[p]
ScoreBefore(p) == scores(counts, clock, p)
ScoreAfter(p) == scores(counts', clock', p)

\* C21: update(p) makes the score of p strictly greater than it was just
\* before the call and the score of every other path that has a row
\* strictly smaller; after the call p outscores every other path with a row.
C21_FrecencyMonotone ==
    [][UpdateCall =>
         \A p \in Paths :
            IF Updated(p)
            THEN /\ RLt(ScoreBefore(p), ScoreAfter(p))
                 /\ \A q \in Paths \ {p} :
                       counts[q].row => RLt(ScoreAfter(q), ScoreAfter(p))
            ELSE counts[p].row => RLt(ScoreAfter(p), ScoreBefore(p))]_vars


\* the names that have a row in table counts
Rows == {n \in Names : counts[n].row}

\* C22: after any sequence of update calls the store holds at most 20 path
\* entries: an update that would add a 21st distinct path evicts one.
C22_AtMostTwentyEntries == Cardinality(Rows) <= 20

\* a call of start_matches_threaded with a bad argument
RejectedCall == c_ret' # c_ret /\ c_ret'.bad # "none"

\* C23: a query call with a bad argument (null handle, invalid UTF-8 in the
\* query, the context or the lines) returns the error, enqueues no command
\* and leaves command_num as it was.
C23_ArgumentErrorsSynchronous ==
    [][RejectedCall =>
         /\ c_ret'.out = "error"
         /\ command_ch' = command_ch
         /\ command_num' = command_num]_vars

\* a call of process on a session that has lines left to score
ProcessCall == calls' # calls /\ progressed_to < Len(lines)

\* C24: an error while scoring one line only skips the line: the call
\* returns no error and goes past the chunk, and no Match of the line is in
\* the heap.
C24_LineErrorSkipsLine ==
    [][ProcessCall =>
         /\ progress'.tag # "Err"
         /\ progressed_to' > progressed_to
         /\ \A i \in 1 .. Len(results') :
               lines[results'[i].index + 1].f # ScoreErr]_vars

\* the process call of the worker returns, and not into the loop: its ?
\* leaves the try block with the error; the host holds the ThreadedMatcher
ProcessFailed ==
    pc = "process" /\ pc' \notin {"process", "loop"} /\ host # "freed"

\* C25: when a process step of a session fails, the worker of a
\* ThreadedMatcher the host holds posts one Err result with the id of the
\* session, ends the session and stays alive: it goes back to receive the
\* next command.
C25_ProcessFailureEndsSession ==
    [][ProcessFailed =>
         /\ result_ch' = Append(result_ch, ErrResult(session.id))
         /\ sent' = Append(sent, session.id)
         /\ session.id >= 1
         /\ session' = NoSession
         /\ pc' = "recv"]_vars
\* the worker posted the error of a failed session and, after it, the
\* result of a later query
C25_Witness ==
    \E i \in 1 .. Len(result_ch) :
       \E j \in i + 1 .. Len(result_ch) :
          /\ result_ch[i] = ErrResult(sent[Len(sent) - Len(result_ch) + i])
          /\ result_ch[i].id >= 1
          /\ result_ch[j].ok
          /\ result_ch[j].id > result_ch[i].id

\* C26: after every process call, for any chunk size and any num_results,
\* 0 included, the heap of the session holds at most num_results Matches.
C26_HeapBounded == Len(results) <= num_results
\* all lines are scored, more of them match than the heap may hold, and
\* the heap is full
C26_Witness ==
    /\ calls >= 2
    /\ progress.tag = "Done"
    /\ num_results >= 1
    /\ Len(FilterMap(query, context, lines, 0)) > num_results
    /\ Len(results) = num_results

\* every Match of the list has the index of a line below bound and is the
\* Match the scorer produces for that line
ScoredBelow(list, bound) ==
    \A j \in 1 .. Len(list) : list[j].index < bound /\ OfLine(list[j])

\* C27: progressed_to is at most the number of lines and never decreases;
\* every Match in the heap has an index below progressed_to and is the Match
\* of the line at that index; every Match of a Done result has an index
\* below the number of lines.
C27_ProgressAndIndices ==
    /\ [](/\ progressed_to <= Len(lines)
          /\ ScoredBelow(results, progressed_to)
          /\ progress.tag = "Done" => ScoredBelow(progress.list, Len(lines)))
    /\ [][progressed_to' >= progressed_to]_vars
\* the session is part way: a Match of the second chunk is in the heap,
\* and the line at its index within the chunk is a different line
C27_Witness ==
    /\ calls >= 2
    /\ 0 < progressed_to /\ progressed_to < Len(lines)
    /\ \E j \in 1 .. Len(results) :
          /\ results[j].index >= 1
          /\ results[j].index = progressed_to - 1
          /\ lines[results[j].index + 1] # lines[1]

\* C28: an update call increases the clock by exactly 1, sets the stored
\* value of its path to the new clock (count = at + ln(m) with at the new
\* clock and m = 1) and leaves the row of every other name as it was.
C28_UpdateStoresClock ==
    [][UpdateCall =>
         /\ clock' = clock + 1
         /\ \E p \in Paths :
               /\ counts'[p] = Row(clock', One)
               /\ \A q \in Names \ {p} : counts'[q] = counts[q]]_vars

\* the worker of a ThreadedMatcher the host holds leaves the session it
\* was serving
SessionEnds == session.id >= 1 /\ session' = NoSession /\ host # "freed"
\* process has been called for the session at least once
ProcessRan(s) == s.progressed_to > 0 \/ s.progress = "Done"

\* C29: the worker looks at the command channel only after a process step:
\* a session that ends without a result sent has run at least one process
\* step, and a session whose lines fit in one chunk ends with its result
\* sent, even when a newer command is pending.
C29_ProcessBeforePeek ==
    [][SessionEnds =>
         /\ sent' = sent => ProcessRan(session)
         /\ session.len <= ChunkSize => sent' = Append(sent, session.id)]_vars

\* C30: the context contribution is held at zero: every Match the matcher
\* holds or has returned has context_score = 0, for every query, context
\* and line, and its score is frequency_score + query_score.
C30_ContextScoreZero ==
    \A list \in ResultLists : \A j \in 1 .. Len(list) :
        /\ list[j].context_score = 0
        /\ list[j].score = fadd(list[j].frequency_score, list[j].query_score)

\* ------------------------------------------------------------ claims C31-C34
\* the worker receives an Update command
UpdateReceived ==
    /\ Len(dequeued') = Len(dequeued) + 1
    /\ IsUpdate(dequeued'[Len(dequeued')])
\* id is 0 or the id of a query the host has issued
IssuedOrZero(id) ==
    \/ id = 0
    \/ /\ id <= command_num
       /\ \E i \in 1 .. Len(enqueued) : IsQuery(enqueued[i]) /\ enqueued[i].id = id

\* C31: the unreachable!() arm of get_result is never executed: every id
\* on the result channel, and every id the worker ever sent, is 0 or the id
\* of a query the host has issued, hence at most command_num; the step in
\* which the worker receives an Update puts no result on the channel.
C31_UnreachableNeverRuns ==
    /\ [](/\ ret.kind # "Unreachable"
          /\ \A i \in 1 .. Len(result_ch) : IssuedOrZero(result_ch[i].id)
          /\ \A i \in 1 .. Len(sent) : IssuedOrZero(sent[i]))
    /\ [][UpdateReceived => result_ch' = result_ch /\ sent' = sent]_vars
\* query 1, an update, query 2: the update was received, both results were
\* sent, and get_result took the result of the latest query from the channel
C31_Witness ==
    /\ command_num = 2
    /\ \E i \in 1 .. Len(dequeued) : IsUpdate(dequeued[i])
    /\ sent = <<1, 2>>
    /\ ret.kind = "Some" /\ ret.res.id = command_num

\* the command the host sent last is a Query: its id is command_num
LastIsQuery == enqueued # <<>> /\ IsQuery(enqueued[Len(enqueued)])
\* the worker has not failed: its thread runs and it has sent no Err
NoFailure ==
    /\ pc \notin {"exit", "closing", "dead"}
    /\ \A i \in 1 .. Len(result_ch) : result_ch[i].ok
\* the worker has sent the result of the latest query
LatestSent == command_num \in Range(sent)
\* the result of the latest query is on the result channel
LatestOnChannel == \E i \in 1 .. Len(result_ch) : result_ch[i].id = command_num
\* the worker left the session of the latest query before Done
LatestAbandoned == \E a \in abandoned : a.id = command_num

\* C32: when the commands of the host end with a Query and the worker does
\* not fail, the worker, scheduled fairly, eventually sends the result of
\* that query, and a get_result call made while it is on the channel
\* returns it; a query the worker has left for a later command never has a
\* result sent, and get_result returns None for it as long as the worker
\* runs.
C32_LastQueryAnswered ==
    /\ ([]NoFailure /\ <>[]LastIsQuery) => <>[]LatestSent
    /\ [][(GetResultCall /\ NoFailure /\ LatestOnChannel) =>
            ret'.kind = "Some" /\ ret'.res.id = command_num]_vars
    /\ [](LatestAbandoned => ~LatestSent)
    /\ [][(GetResultCall /\ NoFailure /\ LatestAbandoned) => ret'.kind = "None"]_vars
\* query 1 was left for query 2, the last command, and never had a result
\* sent; the result of query 2 was sent and get_result returned it
C32_Witness ==
    /\ LastIsQuery /\ NoFailure
    /\ command_num = 2
    /\ \E a \in abandoned : a.id = 1
    /\ 1 \notin Range(sent)
    /\ ret.kind = "Some" /\ ret.res.ok /\ ret.res.id = 2

\* ceil(n / c) for c >= 1
Ceil(n, c) == (n + c - 1) \div c
\* the call on which a session over n lines stepped by c >= 1 returns Done
DoneCall(n, c) == IF Ceil(n, c) >= 1 THEN Ceil(n, c) ELSE 1

\* C33: a session over n lines stepped by c >= 1 has, after j calls of
\* process, advanced by min(c, remaining) at each call, and the call
\* returned Working when j < max(1, ceil(n / c)) and Done from call
\* max(1, ceil(n / c)) on; stepped by 0 with n > 0 every call returns
\* Working and nothing advances.
C33_StepperTerminates ==
    calls >= 1 =>
        IF stride >= 1
        THEN /\ progressed_to = Min(calls * stride, Len(lines))
             /\ progress.tag = IF calls >= DoneCall(Len(lines), stride)
                               THEN "Done" ELSE "Working"
        ELSE Len(lines) > 0 => progressed_to = 0 /\ progress.tag = "Working"

\* the step in which matcher.update(..).unwrap() panics, and the states
\* after it: an update was received and not applied
UpdateFails == UpdateReceived /\ pc' = "exit"
UpdateFailed == NumUpdates(dequeued) > clock
\* the worker after a failed update: the failing step posts nothing, and
\* after it no command is received and no result is sent
UpdateFailureWorker ==
    /\ [][UpdateFails => result_ch' = result_ch /\ sent' = sent]_vars
    /\ [][UpdateFailed => dequeued' = dequeued /\ sent' = sent]_vars

\* C34 as claimed: after a failed update the worker posts nothing and
\* receives nothing, get_result returns the results on the channel, oldest
\* first, and the died error once the channel is empty.
C34_Original ==
    /\ UpdateFailureWorker
    /\ [][(GetResultCall /\ UpdateFailed) =>
            IF result_ch = <<>>
            THEN ret'.kind = "Died"
            ELSE ret'.kind = "Some" /\ ret'.res = Head(result_ch)]_vars

\* C34 amended: after a failed update the worker posts nothing and receives
\* nothing; get_result returns the result of the latest query if it is on
\* the channel and discards the results of older queries; when no result of
\* the latest query is on the channel it returns the died error once the
\* ending worker has dropped its end of the result channel, and None before
\* that.
C34_UpdateFailureFatal ==
    /\ UpdateFailureWorker
    /\ [][(GetResultCall /\ UpdateFailed) =>
            IF HasId(result_ch, command_num)
            THEN /\ ret'.kind = "Some" /\ ret'.res.id = command_num
                 /\ ret'.res \in Range(result_ch)
            ELSE /\ ret'.kind = IF ResultSenderDropped THEN "Died" ELSE "None"
                 /\ result_ch' = <<>>]_vars
\* query 1 was answered, an update failed, and the update sent after it
\* stays on the command channel: get_result returned the result of query 1
\* and then the died error
C34_Witness ==
    /\ UpdateFailed /\ pc = "dead"
    /\ delivered = <<1>>
    /\ Len(dequeued) = 2 /\ IsUpdate(dequeued[2])
    /\ command_ch # <<>>
    /\ ret.kind = "Died"
====
